---- MODULE Spec2Model ----
(***************************************************************************)
(* LatticeAgent, the Terminal-Bench adapter of                             *)
(* benchmarks/terminal_bench/lattice_agent.py: construction of adapters,   *)
(* the resolution of their environment mapping (the _env property)         *)
(* against the process environment os.environ, and setup() and run() of    *)
(* one adapter against a sandbox, one step per stretch of code between     *)
(* two awaits; and build_app_archive of lattice_payload, which packs the   *)
(* application archive that setup() uploads.                               *)
(*                                                                         *)
(* A Python str is a sequence of one-character strings; Python's None is   *)
(* the sequence None below, which is no str.  A dict is a function whose   *)
(* DOMAIN is the set of its keys.                                          *)
(***************************************************************************)
EXTENDS Integers, Sequences, FiniteSets, TLC

\* ------------------------------------------------------------------ bounds

\* Longest generated model id (SpecModel draws every id up to this length).
MaxLen == 3

\* Most variables the ambient environment sets at the start (SpecResolve).
MaxAmbientKeys == 2

\* Most calls of setup() the harness makes on one adapter (SpecRun).
MaxSetups == 2

\* Longest include list given to build_app_archive (SpecArchive).
MaxIncludes == 2

\* ------------------------------------------------------------- Python values

None == <<"<None>">>

\* A parameter left at its declared default (model_name of __init__).
NotGiven == <<"<default>">>

\* U+00B2 SUPERSCRIPT TWO, one character: str.isdigit() is True for it,
\* int() rejects it.
SUPERSCRIPT_TWO == "^2"

DecimalChars == {"0", "1", "2", "3", "4", "5", "6", "7", "8", "9"}

\* The characters c with c.isdigit().
IsDigitChars == DecimalChars \cup {SUPERSCRIPT_TWO}

WhitespaceChars == {" "}

DigitValue(c) ==
    CASE c = "0" -> 0 [] c = "1" -> 1 [] c = "2" -> 2 [] c = "3" -> 3
      [] c = "4" -> 4 [] c = "5" -> 5 [] c = "6" -> 6 [] c = "7" -> 7
      [] c = "8" -> 8 [] c = "9" -> 9

DigitChar(d) ==
    CASE d = 0 -> "0" [] d = 1 -> "1" [] d = 2 -> "2" [] d = 3 -> "3"
      [] d = 4 -> "4" [] d = 5 -> "5" [] d = 6 -> "6" [] d = 7 -> "7"
      [] d = 8 -> "8" [] d = 9 -> "9"

RECURSIVE LStrip(_)
LStrip(s) ==
    IF s # <<>> /\ Head(s) \in WhitespaceChars THEN LStrip(Tail(s)) ELSE s

RECURSIVE RStrip(_)
RStrip(s) ==
    IF s # <<>> /\ s[Len(s)] \in WhitespaceChars
    THEN RStrip(SubSeq(s, 1, Len(s) - 1))
    ELSE s

\* str.strip()
Strip(s) == RStrip(LStrip(s))

\* c in s, for a character c
Contains(s, c) == \E i \in 1..Len(s) : s[i] = c

\* s.startswith(p)
StartsWith(s, p) == Len(s) >= Len(p) /\ SubSeq(s, 1, Len(p)) = p

\* p in s, for a str p
Mentions(s, p) ==
    \E i \in 0..(Len(s) - Len(p)) : SubSeq(s, i + 1, i + Len(p)) = p

\* s.find(c) + 1 for a character c that occurs in s
FirstIndex(s, c) ==
    CHOOSE i \in 1..Len(s) : s[i] = c /\ \A j \in 1..(i - 1) : s[j] # c

\* s.split(c, 1) for a character c that occurs in s
SplitOnce(s, c) ==
    << SubSeq(s, 1, FirstIndex(s, c) - 1),
       SubSeq(s, FirstIndex(s, c) + 1, Len(s)) >>

\* str.isdigit()
IsDigit(s) == s # <<>> /\ \A i \in 1..Len(s) : s[i] \in IsDigitChars

RECURSIVE DecimalValue(_)
DecimalValue(s) ==
    IF s = <<>> THEN 0
    ELSE 10 * DecimalValue(SubSeq(s, 1, Len(s) - 1)) + DigitValue(s[Len(s)])

IsDecimal(s) == s # <<>> /\ \A i \in 1..Len(s) : s[i] \in DecimalChars

\* int(s) of a str: surrounding whitespace and one sign are accepted, then
\* decimal digits only; anything else raises ValueError (ok = FALSE).
ParseInt(s) ==
    LET t == Strip(s)
        signed == t # <<>> /\ Head(t) \in {"-", "+"}
        digits == IF signed THEN Tail(t) ELSE t
    IN  IF IsDecimal(digits)
        THEN [ok |-> TRUE,
              val |-> IF signed /\ Head(t) = "-"
                      THEN 0 - DecimalValue(digits)
                      ELSE DecimalValue(digits)]
        ELSE [ok |-> FALSE, val |-> 0]

RECURSIVE NatToStr(_)
NatToStr(n) ==
    IF n < 10 THEN <<DigitChar(n)>>
    ELSE Append(NatToStr(n \div 10), DigitChar(n % 10))

\* str(n) of an int
IntToStr(n) == IF n < 0 THEN <<"-">> \o NatToStr(0 - n) ELSE NatToStr(n)

\* ------------------------------------------------------------ dict helpers

EmptyDict == [k \in {} |-> <<>>]

\* d[k] = v
Put(d, k, v) == [x \in DOMAIN d \cup {k} |-> IF x = k THEN v ELSE d[x]]

\* d.setdefault(k, v)
SetDefault(d, k, v) == IF k \in DOMAIN d THEN d ELSE Put(d, k, v)

\* bool(d.get(k)): the key is there and its value is not empty
Truthy(d, k) == k \in DOMAIN d /\ d[k] # <<>>

\* -------------------------------------------------------- class constants

_DEFAULT_MODEL ==
    <<"a","n","t","h","r","o","p","i","c",":","c","l","a","u","d","e","-",
      "s","o","n","n","e","t","-","4","-","5">>

_DEFAULT_PROJECT_CANDIDATES ==
    <<"/","w","o","r","k","s","p","a","c","e",":","/","a","p","p",":","/",
      "w","o","r","k","s","p","a","c","e","s",":","/","r","o","o","t","/",
      "p","r","o","j","e","c","t">>

DEFAULT_CONFIG_ROOT == <<"/","r","o","o","t","/",".","l","a","t","t","i","c","e">>

DEFAULT_APP_ROOT ==
    <<"/","o","p","t","/","l","a","t","t","i","c","e","-","a","p","p">>

DEFAULT_WORKSPACE_ID == <<"l","a","t","t","i","c","e","-","b","e","n","c","h">>

_PROVIDER_ENV_KEYS ==
    << "ANTHROPIC_API_KEY", "ANTHROPIC_BASE_URL", "OPENAI_API_KEY",
       "OPENAI_BASE_URL", "OPENAI_API_BASE", "OPENAI_ORG_ID",
       "AZURE_OPENAI_API_KEY", "AZURE_OPENAI_ENDPOINT",
       "AZURE_OPENAI_DEPLOYMENT", "AZURE_OPENAI_API_VERSION",
       "GOOGLE_GENERATIVE_AI_API_KEY", "GOOGLE_API_KEY", "GOOGLE_BASE_URL" >>

_CONFIG_ENV_KEYS ==
    << "LATTICE_AGENT_GIT_URL", "LATTICE_BUN_INSTALL_URL",
       "LATTICE_PROJECT_PATH", "LATTICE_PROJECT_CANDIDATES", "LATTICE_MODEL",
       "LATTICE_TIMEOUT_MS", "LATTICE_CONFIG_ROOT", "LATTICE_APP_ROOT",
       "LATTICE_WORKSPACE_ID", "LATTICE_EXPERIMENTS", "LATTICE_RUN_ARGS" >>

\* The keys _env copies from os.environ.
ForwardedKeys ==
    {_PROVIDER_ENV_KEYS[i] : i \in 1..Len(_PROVIDER_ENV_KEYS)}
        \cup {_CONFIG_ENV_KEYS[i] : i \in 1..Len(_CONFIG_ENV_KEYS)}

\* The keys _env strips after the defaults are in.
StrippedKeys ==
    {"LATTICE_CONFIG_ROOT", "LATTICE_APP_ROOT", "LATTICE_WORKSPACE_ID",
     "LATTICE_PROJECT_CANDIDATES"}

GOOGLE_PREFIX == <<"g","o","o","g","l","e",":">>

\* The messages of the ValueErrors _env raises.
MSG_MODEL ==
    <<"L","A","T","T","I","C","E","_","M","O","D","E","L"," ","m","u","s",
      "t"," ","b","e"," ","a"," ","n","o","n","-","e","m","p","t","y"," ",
      "s","t","r","i","n","g">>

MSG_GOOGLE ==
    <<"G","o","o","g","l","e"," ","m","o","d","e","l","s"," ","r","e","q",
      "u","i","r","e"," ","G","O","O","G","L","E","_","G","E","N","E","R",
      "A","T","I","V","E","_","A","I","_","A","P","I","_","K","E","Y"," ",
      "(","p","r","e","f","e","r","r","e","d",")"," ","o","r"," ","G","O",
      "O","G","L","E","_","A","P","I","_","K","E","Y">>

MSG_TIMEOUT ==
    <<"L","A","T","T","I","C","E","_","T","I","M","E","O","U","T","_","M",
      "S"," ","m","u","s","t"," ","b","e"," ","a","n"," ","i","n","t","e",
      "g","e","r">>

MSG_PROJECT ==
    <<"L","A","T","T","I","C","E","_","P","R","O","J","E","C","T","_","P",
      "A","T","H"," ","m","u","s","t"," ","b","e"," ","n","o","n","-","e",
      "m","p","t","y"," ","w","h","e","n"," ","p","r","o","v","i","d","e",
      "d">>

\* ------------------------------------------------------------------- _env

\* for key in (...): value = os.environ.get(key); if value: env[key] = value
Forwarded(environ) ==
    [k \in {x \in ForwardedKeys \cap DOMAIN environ : environ[x] # <<>>}
        |-> environ[k]]

\* WithDefaults without the default of the workspace id.
WithDefaults_NoWorkspaceId(env) ==
    SetDefault(
      SetDefault(
        SetDefault(
          SetDefault(env, "LATTICE_MODEL", _DEFAULT_MODEL),
          "LATTICE_CONFIG_ROOT", DEFAULT_CONFIG_ROOT),
        "LATTICE_APP_ROOT", DEFAULT_APP_ROOT),
      "LATTICE_PROJECT_CANDIDATES", _DEFAULT_PROJECT_CANDIDATES)

WithDefaults(env) ==
    SetDefault(
      SetDefault(
        SetDefault(
          SetDefault(
            SetDefault(env, "LATTICE_MODEL", _DEFAULT_MODEL),
            "LATTICE_CONFIG_ROOT", DEFAULT_CONFIG_ROOT),
          "LATTICE_APP_ROOT", DEFAULT_APP_ROOT),
        "LATTICE_WORKSPACE_ID", DEFAULT_WORKSPACE_ID),
      "LATTICE_PROJECT_CANDIDATES", _DEFAULT_PROJECT_CANDIDATES)

\* model_value = self._model_name or env["LATTICE_MODEL"]
SelectModel(self, env) ==
    IF self.model_name # <<>> THEN self.model_name ELSE env["LATTICE_MODEL"]

\* NormalizeModel with str.replace("/", ":"): every "/" rewritten.
NormalizeModel_ReplaceAll(model_value) ==
    IF Contains(model_value, "/") /\ ~Contains(model_value, ":")
    THEN [i \in 1..Len(model_value) |->
            IF model_value[i] = "/" THEN ":" ELSE model_value[i]]
    ELSE model_value

\* if "/" in model_value and ":" not in model_value: split("/", 1), join by ":"
NormalizeModel(model_value) ==
    IF Contains(model_value, "/") /\ ~Contains(model_value, ":")
    THEN SplitOnce(model_value, "/")[1] \o <<":">>
             \o SplitOnce(model_value, "/")[2]
    ELSE model_value

\* GoogleCredentials that forgets the legacy key.
GoogleCredentials_PreferredOnly(env) ==
    Truthy(env, "GOOGLE_GENERATIVE_AI_API_KEY")

\* env.get("GOOGLE_GENERATIVE_AI_API_KEY") or env.get("GOOGLE_API_KEY")
GoogleCredentials(env) ==
    Truthy(env, "GOOGLE_GENERATIVE_AI_API_KEY") \/ Truthy(env, "GOOGLE_API_KEY")

\* model_value.startswith("google:") and not (credentials)
GoogleCheckFails(model_value, env) ==
    StartsWith(model_value, GOOGLE_PREFIX) /\ ~GoogleCredentials(env)

\* for key in (...): env[key] = env[key].strip()
StripDefaults(env) ==
    [k \in DOMAIN env |-> IF k \in StrippedKeys THEN Strip(env[k]) ELSE env[k]]

\* if timeout_value := env.get(...): if not timeout_value.strip().isdigit()
TimeoutCheckFails(env) ==
    Truthy(env, "LATTICE_TIMEOUT_MS")
        /\ ~IsDigit(Strip(env["LATTICE_TIMEOUT_MS"]))

\* if project_path := env.get(...): if not project_path.strip()
ProjectPathCheckFails(env) ==
    Truthy(env, "LATTICE_PROJECT_PATH")
        /\ Strip(env["LATTICE_PROJECT_PATH"]) = <<>>

\* if self._experiments: env["LATTICE_EXPERIMENTS"] = self._experiments
WithExperiments(self, env) ==
    IF self.experiments # None /\ self.experiments # <<>>
    THEN Put(env, "LATTICE_EXPERIMENTS", self.experiments)
    ELSE env

\* How one evaluation of _env ends: the dict it returns, or the ValueError
\* it raises together with the locals env and model_value at the raise.
Returned(env, model_value) ==
    [state |-> "returned", env |-> env, model_value |-> model_value,
     error |-> <<>>]

Raised(env, model_value, message) ==
    [state |-> "raised", env |-> env, model_value |-> model_value,
     error |-> message]

NotEvaluated ==
    [state |-> "none", env |-> EmptyDict, model_value |-> <<>>,
     error |-> <<>>]

\* The _env property of adapter self, read against os.environ = environ.
_env(self, environ) ==
    LET env1 == WithDefaults(Forwarded(environ))
        stripped == Strip(SelectModel(self, env1))
        model_value == NormalizeModel(stripped)
    IN  IF stripped = <<>> THEN Raised(env1, stripped, MSG_MODEL)
        ELSE IF GoogleCheckFails(model_value, env1)
        THEN Raised(env1, model_value, MSG_GOOGLE)
        ELSE
          LET env2 == StripDefaults(Put(env1, "LATTICE_MODEL", model_value))
          IN  IF TimeoutCheckFails(env2)
              THEN Raised(env2, model_value, MSG_TIMEOUT)
              ELSE IF ProjectPathCheckFails(env2)
              THEN Raised(env2, model_value, MSG_PROJECT)
              ELSE Returned(WithExperiments(self, env2), model_value)

\* ------------------------------------------------------------------ state

Adapters == {"A", "B"}

VARIABLES
    os_environ,      \* the process environment, shared by every adapter
    initial_environ, \* os.environ before any adapter was constructed
    agents,          \* per adapter: its fields, and the arguments it got
    resolved,        \* per adapter: how its last evaluation of _env ended
    pc,              \* where adapter A's setup() or run() coroutine stands
    frame,           \* the locals of that coroutine
    error,           \* the exception the last setup() or run() raised
    calls,           \* the sandbox operations issued since the last setup()
                     \* began, in order
    logs,            \* the files under logs_dir, but for the token file
    token_file,      \* logs_dir / "lattice-tokens.json"
    context,         \* the harness's AgentContext
    providers_path,  \* what the host has at the LATTICE_PROVIDERS_FILE path
    archive_bytes,   \* self._archive_bytes of adapter A
    last_environment,\* self._last_environment of adapter A
    setups,          \* setup() calls started
    runs,            \* run() calls started
    repo_root,       \* the files that exist under the repo root on the host
    built,           \* what the last direct call of build_app_archive got
                     \* and returned
    earlier_token_file \* the lattice-tokens.json an earlier run left under
                     \* logs_dir

\* The state of adapter A's setup() and run().
lifecycle ==
    <<pc, frame, error, calls, logs, token_file, context, providers_path,
      archive_bytes, last_environment, setups, runs>>

\* The state of the host's repository and of build_app_archive, and what
\* logs_dir held before the adapter was used.
payload == <<repo_root, built, earlier_token_file>>

vars == <<os_environ, initial_environ, agents, resolved, lifecycle, payload>>

NotConstructed ==
    [built |-> FALSE, model_name |-> <<>>, experiments |-> None,
     arg_model_name |-> NotGiven, arg_experiments |-> None,
     arg_timeout |-> None]

\* self._model_name = (model_name or "").strip(); the parameter defaults to
\* "anthropic:claude-sonnet-4-5"
ModelNameField(model_name) ==
    Strip(IF model_name = NotGiven THEN _DEFAULT_MODEL
          ELSE IF model_name = None THEN <<>>
          ELSE model_name)

\* self._experiments = (experiments or "").strip() if experiments else None
ExperimentsField(experiments) ==
    IF experiments # None /\ experiments # <<>> THEN Strip(experiments)
    ELSE None

\* os.environ["LATTICE_TIMEOUT_MS"] = str(int(timeout) * 1000)
TimeoutToEnviron(environ, timeout) ==
    IF timeout # None
    THEN Put(environ, "LATTICE_TIMEOUT_MS",
             IntToStr(ParseInt(timeout).val * 1000))
    ELSE environ

\* LatticeAgent(model_name=..., experiments=..., timeout=...), where the
\* repo root exists and the runner script is a file, as in an installed
\* adapter.  An int timeout is given as its decimal str (int(t) =
\* int(str(t))).  int(timeout) raising leaves everything as it was and no
\* adapter is made.
__init__(a, model_name, experiments, timeout) ==
    /\ ~agents[a].built
    /\ IF timeout # None /\ ~ParseInt(timeout).ok
       THEN UNCHANGED vars
       ELSE /\ os_environ' = TimeoutToEnviron(os_environ, timeout)
            /\ agents' =
                 [agents EXCEPT ![a] =
                    [built |-> TRUE,
                     model_name |-> ModelNameField(model_name),
                     experiments |-> ExperimentsField(experiments),
                     arg_model_name |-> model_name,
                     arg_experiments |-> experiments,
                     arg_timeout |-> timeout]]
            /\ UNCHANGED <<initial_environ, resolved, lifecycle, payload>>

\* env = agent._env
GetEnv(a) ==
    /\ agents[a].built
    /\ resolved' = [resolved EXCEPT ![a] = _env(agents[a], os_environ)]
    /\ UNCHANGED <<payload, os_environ, initial_environ, agents, lifecycle>>

\* ------------------------------------------------------ build_app_archive

_INCLUDE_PATHS ==
    <<"package.json", "bun.lock", "bunfig.toml", "tsconfig.json",
      "tsconfig.main.json", "src", "dist", "scripts/postinstall.sh">>

\* The files a repo root may hold, and the directories they lie in.
RepoFiles ==
    {"README.md", "package.json", "scripts/postinstall.sh", "src/a.ts",
     "src/b/c.ts"}

\* The directory a path lies in; "" is the root.
Parent(path) ==
    CASE path = "scripts/postinstall.sh" -> "scripts"
      [] path = "src/a.ts" -> "src"
      [] path = "src/b" -> "src"
      [] path = "src/b/c.ts" -> "src/b"
      [] OTHER -> ""

\* The order of the entries of an archive: sorted by path.
ArchiveOrder ==
    <<"README.md", "package.json", "scripts", "scripts/postinstall.sh",
      "src", "src/a.ts", "src/b", "src/b/c.ts">>

\* path.is_dir(): a directory exists where a file lies in it, or in a
\* directory in it.
IsDir(root, path) ==
    \E f \in root : path \in {Parent(f), Parent(Parent(f))} /\ path # ""

\* What the directory holds: files and directories.
ListDir(root, dir) ==
    {f \in root : Parent(f) = dir}
        \cup {Parent(f) : f \in {g \in root : Parent(Parent(g)) = dir
                                               /\ Parent(g) # dir}}

\* An include path is taken by itself, and not what lies in it.
Walk_NotRecursive(root, path) ==
    IF path \in root \/ IsDir(root, path) THEN {path} ELSE {}

RECURSIVE Walk(_, _)
\* The entries one include path gives: the file; the directory and, walked
\* in turn, all it holds; nothing when the path is not on disk.
Walk(root, path) ==
    IF path \in root THEN {path}
    ELSE IF IsDir(root, path)
    THEN {path} \cup UNION {Walk(root, child) : child \in ListDir(root, path)}
    ELSE {}

\* build_app_archive(root, include_paths): the bytes of a gzip stream, never
\* empty, then the entries in the archive's order.
build_app_archive(root, include_paths) ==
    LET entries ==
            UNION {Walk(root, include_paths[i]) : i \in DOMAIN include_paths}
    IN  <<"<tar.gz>">> \o SelectSeq(ArchiveOrder, LAMBDA path : path \in entries)

\* tarfile.open(fileobj=io.BytesIO(bytes)).getnames(), as a set
ArchiveNames(bytes) == {bytes[i] : i \in 2..Len(bytes)}

\* build_app_archive has not been called directly.
NotBuilt == [include_paths |-> <<>>, archive_bytes |-> None]

\* archive_bytes = build_app_archive(repo_root, include_paths)
BuildArchive(include_paths) ==
    /\ built' = [include_paths |-> include_paths,
                 archive_bytes |-> build_app_archive(repo_root, include_paths)]
    /\ UNCHANGED <<os_environ, initial_environ, agents, resolved, lifecycle,
                   repo_root, earlier_token_file>>

\* A file of the repository is removed on the host, between two calls of
\* the adapter.
edit_repo ==
    /\ pc = "idle"
    /\ setups > 0
    /\ runs = 0
    /\ repo_root = RepoFiles
    /\ repo_root' = RepoFiles \ {"src/a.ts"}
    /\ UNCHANGED <<os_environ, initial_environ, agents, resolved, lifecycle,
                   built, earlier_token_file>>

\* --------------------------------------------------- setup() and run(): values

_ARCHIVE_NAME == <<"l","a","t","t","i","c","e","-","a","p","p",".","t","a","r",".","g","z">>

_RUNNER_NAME == <<"l","a","t","t","i","c","e","-","r","u","n",".","s","h">>

_PROVIDERS_FILE_ENV_KEY == "LATTICE_PROVIDERS_FILE"

_TOKEN_FILE_PATH ==
    <<"/","t","m","p","/","l","a","t","t","i","c","e","-","t","o","k","e","n","s",".","j","s","o","n">>

\* "mkdir -p /installed-agent"
MKDIR_COMMAND ==
    <<"m","k","d","i","r"," ","-","p"," ","/","i","n","s","t","a","l","l","e","d","-","a","g","e","n","t">>

\* "/installed-agent/"
INSTALLED_AGENT_DIR == <<"/","i","n","s","t","a","l","l","e","d","-","a","g","e","n","t","/">>

\* "bash /installed-agent/lattice-run.sh "
RUNNER_COMMAND_PREFIX ==
    <<"b","a","s","h"," ">> \o INSTALLED_AGENT_DIR \o _RUNNER_NAME \o <<" ">>

\* What the RuntimeError of _stage_providers_config names.
MSG_PROVIDERS ==
    <<"L","A","T","T","I","C","E","_","P","R","O","V","I","D","E","R","S","_","F","I","L","E">>

PROVIDERS_BASENAME == <<"/","p","r","o","v","i","d","e","r","s",".","j","s","o","n","c">>

\* The source_path of the runner upload, self._runner_path.
RUNNER_PATH == <<"<lattice-run.sh on the host>">>

\* The int 0 that data.get("input", 0) defaults to.  A number is written as
\* its literal, so that numbers and None compare.
ZERO == <<"0">>

\* re.compile(r"[^\w@%+=:,./-]", re.ASCII) of shlex: the characters that are
\* not unsafe.
ShlexSafeChars ==
    {"a", "b", "c", "d", "e", "f", "g", "h", "i", "j", "k", "l", "m",
     "n", "o", "p", "q", "r", "s", "t", "u", "v", "w", "x", "y", "z",
     "A", "B", "C", "D", "E", "F", "G", "H", "I", "J", "K", "L", "M",
     "N", "O", "P", "Q", "R", "S", "T", "U", "V", "W", "X", "Y", "Z",
     "0", "1", "2", "3", "4", "5", "6", "7", "8", "9", "_", "@", "%",
     "+", "=", ":", ",", ".", "/", "-"}

\* s.replace("'", "'\"'\"'")
RECURSIVE EscapeQuotes(_)
EscapeQuotes(s) ==
    IF s = <<>> THEN <<>>
    ELSE (IF Head(s) = "'" THEN <<"'", "\"", "'", "\"", "'">>
          ELSE <<Head(s)>>) \o EscapeQuotes(Tail(s))

\* The str between single quotes, its own quotes left as they are.
ShlexQuote_NoEscape(s) == <<"'">> \o s \o <<"'">>

\* shlex.quote(s)
ShlexQuote(s) ==
    IF s = <<>> THEN <<"'", "'">>
    ELSE IF \A i \in 1..Len(s) : s[i] \in ShlexSafeChars THEN s
    ELSE <<"'">> \o EscapeQuotes(s) \o <<"'">>

\* s.rstrip("/")
RECURSIVE RStripSlash(_)
RStripSlash(s) ==
    IF s # <<>> /\ s[Len(s)] = "/" THEN RStripSlash(SubSeq(s, 1, Len(s) - 1))
    ELSE s

\* d.get(k)
DictGet_NoDefault(d, k, default) == IF k \in DOMAIN d THEN d[k] ELSE None

\* d.get(k, default)
DictGet(d, k, default) == IF k \in DOMAIN d THEN d[k] ELSE default

\* No coroutine of the adapter is running.
NoFrame == [env |-> EmptyDict, command |-> <<>>]

NoError == [type |-> "none", message |-> <<>>]

\* The exception of a sandbox call that raised.
SandboxError == [type |-> "SandboxError", message |-> <<>>]

\* A file that does not exist.
Absent == [json |-> "absent", obj |-> EmptyDict]

\* A file whose text is JSON for a dict (json "object"), JSON for something
\* else (json "array", "null"), or no JSON at all (json "invalid").
FileWith(json, obj) == [json |-> json, obj |-> obj]

\* An AgentContext as the harness makes it: every field None.
UnsetContext ==
    [n_input_tokens |-> None, n_output_tokens |-> None, cost_usd |-> None]

\* One sandbox operation: which call of setup() or run() issued it, the
\* operation, its command or its path in the sandbox, and how it ended.
SandboxCall(call, n, op, what) ==
    [call |-> call, n |-> n, op |-> op, what |-> what, result |-> "pending",
     return_code |-> None]

\* ------------------------------------------------------------------ setup()

\* The next operation is issued while the last one is still outstanding.
Completed_StillPending(result, return_code) == calls

\* The last sandbox operation, with its outcome filled in.
Completed(result, return_code) ==
    [calls EXCEPT ![Len(calls)] =
        [@ EXCEPT !.result = result, !.return_code = return_code]]

\* What setup() and run() issue up to their first await.  Both read
\* self._env first, and issue nothing when it raises.
IssuedBeforeResolving(r, call) == <<call>>

IssuedAfterResolving(r, call) == IF r.state = "raised" THEN <<>> ELSE <<call>>

\* The harness calls setup(environment) on a constructed adapter, before
\* run().  Up to the first await: env = self._env, which may raise, then
\* environment.exec(command="mkdir -p /installed-agent") is issued.
setup ==
    /\ pc = "idle"
    /\ agents["A"].built
    /\ runs = 0
    /\ setups < MaxSetups
    /\ setups' = setups + 1
    /\ LET r == _env(agents["A"], os_environ)
       IN  /\ resolved' = [resolved EXCEPT !["A"] = r]
           /\ IF r.state = "raised"
              THEN /\ error' = [type |-> "ValueError", message |-> r.error]
                   /\ UNCHANGED <<pc, frame>>
              ELSE /\ error' = NoError
                   /\ pc' = "setup:mkdir"
                   /\ frame' = [env |-> r.env, command |-> MKDIR_COMMAND]
           /\ calls' = IssuedAfterResolving(r,
                 SandboxCall("setup", setups', "exec", MKDIR_COMMAND))
    /\ UNCHANGED <<payload, os_environ, initial_environ, agents, logs, token_file,
                   context, providers_path, archive_bytes, last_environment,
                   runs>>

\* The archive is built anew by every setup().
ArchiveBytes_Rebuilt(cached) == build_app_archive(repo_root, _INCLUDE_PATHS)

\* if not self._archive_bytes: self._archive_bytes = build_app_archive(...)
ArchiveBytes(cached) ==
    IF cached = None \/ cached = <<>>
    THEN build_app_archive(repo_root, _INCLUDE_PATHS)
    ELSE cached

\* The mkdir returned a result, whose return code is not looked at: the
\* archive is built unless cached, written under logs_dir, and its upload
\* to /installed-agent/lattice-app.tar.gz is issued.
setup_upload_archive(return_code) ==
    /\ pc = "setup:mkdir"
    /\ pc' = "setup:archive"
    /\ archive_bytes' = ArchiveBytes(archive_bytes)
    /\ logs' = Put(logs, "lattice-app.tar.gz", archive_bytes')
    /\ calls' = Append(Completed("returned", return_code),
                       SandboxCall("setup", setups, "upload_file",
                                   INSTALLED_AGENT_DIR \o _ARCHIVE_NAME))
    /\ UNCHANGED <<payload, os_environ, initial_environ, agents, resolved, frame,
                   error, token_file, context, providers_path,
                   last_environment, setups, runs>>

\* The archive upload returned: the upload of the runner script to
\* /installed-agent/lattice-run.sh is issued.
setup_upload_runner ==
    /\ pc = "setup:archive"
    /\ pc' = "setup:runner"
    /\ calls' = Append(Completed("returned", None),
                       SandboxCall("setup", setups, "upload_file",
                                   INSTALLED_AGENT_DIR \o _RUNNER_NAME))
    /\ UNCHANGED <<payload, os_environ, initial_environ, agents, resolved, frame,
                   error, logs, token_file, context, providers_path,
                   archive_bytes, last_environment, setups, runs>>

\* The runner upload returned: await super().setup(environment), the
\* install step of BaseInstalledAgent, one operation of the sandbox here.
setup_super ==
    /\ pc = "setup:runner"
    /\ pc' = "setup:install"
    /\ calls' = Append(Completed("returned", None),
                       SandboxCall("setup", setups, "super().setup", <<>>))
    /\ UNCHANGED <<payload, os_environ, initial_environ, agents, resolved, frame,
                   error, logs, token_file, context, providers_path,
                   archive_bytes, last_environment, setups, runs>>

\* providers_file_raw is falsy: the step is skipped.
ProvidersFileSkipped(environ) == ~Truthy(environ, _PROVIDERS_FILE_ENV_KEY)

\* target_path of _stage_providers_config
ProvidersTarget(env) ==
    LET raw == IF Truthy(env, "LATTICE_CONFIG_ROOT")
               THEN env["LATTICE_CONFIG_ROOT"] ELSE DEFAULT_CONFIG_ROOT
        lattice_config_root ==
            IF Strip(raw) = <<>> THEN DEFAULT_CONFIG_ROOT ELSE Strip(raw)
    IN  RStripSlash(lattice_config_root) \o PROVIDERS_BASENAME

\* self._last_environment = environment, and setup() returns.
SetupReturns ==
    /\ pc' = "idle"
    /\ frame' = NoFrame
    /\ last_environment' = <<"<environment>">>

\* super().setup returned: _stage_providers_config(environment, env) reads
\* os.environ, and returns at once, raises, or issues the upload.
_stage_providers_config ==
    /\ pc = "setup:install"
    /\ IF ProvidersFileSkipped(os_environ)
       THEN /\ SetupReturns
            /\ calls' = Completed("returned", None)
            /\ UNCHANGED error
       ELSE IF providers_path # "file"
       THEN /\ pc' = "idle"
            /\ frame' = NoFrame
            /\ error' = [type |-> "RuntimeError", message |-> MSG_PROVIDERS]
            /\ calls' = Completed("returned", None)
            /\ UNCHANGED last_environment
       ELSE /\ pc' = "setup:providers"
            /\ calls' = Append(Completed("returned", None),
                          SandboxCall("setup", setups, "upload_file",
                                      ProvidersTarget(frame.env)))
            /\ UNCHANGED <<frame, error, last_environment>>
    /\ UNCHANGED <<payload, os_environ, initial_environ, agents, resolved, logs,
                   token_file, context, providers_path, archive_bytes,
                   setups, runs>>

\* The upload of the providers file returned.
setup_finish ==
    /\ pc = "setup:providers"
    /\ SetupReturns
    /\ calls' = Completed("returned", None)
    /\ UNCHANGED <<payload, os_environ, initial_environ, agents, resolved, error,
                   logs, token_file, context, providers_path, archive_bytes,
                   setups, runs>>

\* The sandbox operation that setup() or run() awaits raises, and nothing
\* catches it: the exception leaves the coroutine.
sandbox_raises ==
    /\ pc \in {"setup:mkdir", "setup:archive", "setup:runner",
               "setup:install", "setup:providers", "run:exec"}
    /\ pc' = "idle"
    /\ frame' = NoFrame
    /\ error' = SandboxError
    /\ calls' = Completed("raised", None)
    /\ UNCHANGED <<payload, os_environ, initial_environ, agents, resolved, logs,
                   token_file, context, providers_path, archive_bytes,
                   last_environment, setups, runs>>

\* -------------------------------------------------------------------- run()

\* create_run_agent_commands(instruction)[0].command
RunnerCommand(instruction) == RUNNER_COMMAND_PREFIX \o ShlexQuote(instruction)

\* command.txt is written only with the result of the command.
WriteCommand_Deferred(files, command) == files

\* command_dir.mkdir(parents=True, exist_ok=True);
\* (command_dir / "command.txt").write_text(exec_input.command), for i = 0
WriteCommand(files, command) == Put(files, "command-0/command.txt", command)

\* The harness calls run(instruction, environment, context), with the
\* context ctx of the trial, after a setup() that returned.  Up to the first await: create_run_agent_commands reads
\* self._env, which may raise; command-0/command.txt is written and the
\* exec of the one command is issued.
run(instruction, ctx) ==
    /\ pc = "idle"
    /\ setups > 0
    /\ error = NoError
    /\ runs = 0
    /\ runs' = runs + 1
    /\ context' = ctx
    /\ LET r == _env(agents["A"], os_environ)
       IN  /\ resolved' = [resolved EXCEPT !["A"] = r]
           /\ IF r.state = "raised"
              THEN /\ error' = [type |-> "ValueError", message |-> r.error]
                   /\ UNCHANGED <<pc, frame, logs>>
              ELSE /\ error' = NoError
                   /\ pc' = "run:exec"
                   /\ frame' = [env |-> r.env,
                                command |-> RunnerCommand(instruction)]
                   /\ logs' = WriteCommand(logs, frame'.command)
           /\ calls' = calls \o IssuedAfterResolving(r,
                 SandboxCall("run", runs', "exec", RunnerCommand(instruction)))
    /\ UNCHANGED <<payload, os_environ, initial_environ, agents, token_file,
                   providers_path, archive_bytes, last_environment, setups>>

\* The output of a command that did not exit 0 is dropped.
WriteResult_OnSuccessOnly(files, result) ==
    LET f1 == Put(files, "command-0/return-code.txt", result.return_code)
    IN  IF result.return_code # ZERO THEN f1
        ELSE IF result.stdout # None /\ result.stdout # <<>>
        THEN Put(f1, "command-0/stdout.txt", result.stdout) ELSE f1

\* return-code.txt always, stdout.txt if result.stdout, stderr.txt if
\* result.stderr
WriteResult(files, result) ==
    LET f1 == Put(files, "command-0/return-code.txt", result.return_code)
        f2 == IF result.stdout # None /\ result.stdout # <<>>
              THEN Put(f1, "command-0/stdout.txt", result.stdout) ELSE f1
    IN  IF result.stderr # None /\ result.stderr # <<>>
        THEN Put(f2, "command-0/stderr.txt", result.stderr) ELSE f2

\* The local token file is left as it is before the download.
Unlinked_Kept(file) == file

\* token_file.unlink(missing_ok=True)
Unlinked(file) == Absent

\* The harvest is left out when the command did not exit 0.
run_record_HarvestOnSuccess(result) ==
    /\ pc = "run:exec"
    /\ logs' = WriteResult(logs, result)
    /\ IF result.return_code = ZERO
       THEN /\ pc' = "run:download"
            /\ token_file' = Unlinked(token_file)
            /\ calls' = Append(Completed("returned", result.return_code),
                               SandboxCall("run", runs, "download_file",
                                           _TOKEN_FILE_PATH))
            /\ UNCHANGED frame
       ELSE /\ pc' = "idle"
            /\ frame' = NoFrame
            /\ calls' = Completed("returned", result.return_code)
            /\ UNCHANGED token_file
    /\ UNCHANGED <<payload, os_environ, initial_environ, agents, resolved, error,
                   context, providers_path, archive_bytes, last_environment,
                   setups, runs>>

\* The exec returned a result: its files are written, the loop is over,
\* the local token file is unlinked and the download of
\* /tmp/lattice-tokens.json is issued.
run_record(result) ==
    /\ pc = "run:exec"
    /\ pc' = "run:download"
    /\ logs' = WriteResult(logs, result)
    /\ token_file' = Unlinked(token_file)
    /\ calls' = Append(Completed("returned", result.return_code),
                       SandboxCall("run", runs, "download_file",
                                   _TOKEN_FILE_PATH))
    /\ UNCHANGED <<payload, os_environ, initial_environ, agents, resolved, frame,
                   error, context, providers_path, archive_bytes,
                   last_environment, setups, runs>>

\* json.loads(token_file.read_text()) raises
LoadsRaises(file) == file.json = "invalid"

\* data.get(...) never raises: what is no dict has no fields.
GetRaises_Never(file) == FALSE

\* data.get(...) raises: data is no dict
GetRaises(file) == file.json # "object"

\* A token file that is not there counts as one without fields.
populate_context_post_run_DefaultsWhenAbsent(ctx, file) ==
    IF file = Absent
    THEN [ctx EXCEPT !.n_input_tokens = ZERO, !.n_output_tokens = ZERO]
    ELSE IF file.json # "object" THEN ctx
    ELSE [n_input_tokens |-> DictGet(file.obj, "input", ZERO),
          n_output_tokens |-> DictGet(file.obj, "output", ZERO),
          cost_usd |-> DictGet(file.obj, "cost_usd", ctx.cost_usd)]

\* populate_context_post_run(context), statement by statement: an exception
\* ends it where it stands and is swallowed.
populate_context_post_run(ctx, file) ==
    IF file = Absent THEN ctx
    ELSE IF LoadsRaises(file) THEN ctx
    ELSE IF GetRaises(file) THEN ctx
    ELSE
      LET data == file.obj
          c1 == [ctx EXCEPT !.n_input_tokens = DictGet(data, "input", ZERO)]
          c2 == [c1 EXCEPT !.n_output_tokens = DictGet(data, "output", ZERO)]
      IN  IF DictGet(data, "cost_usd", None) # None
          THEN [c2 EXCEPT !.cost_usd = data["cost_usd"]]
          ELSE c2

\* The download returned, having written the token file, or raised, having
\* written nothing (downloaded is Absent) and being caught: either way
\* populate_context_post_run(context) follows and run() returns.
run_harvest(downloaded) ==
    /\ pc = "run:download"
    /\ pc' = "idle"
    /\ frame' = NoFrame
    /\ token_file' = IF downloaded = Absent THEN token_file ELSE downloaded
    /\ calls' = Completed(IF downloaded = Absent THEN "raised"
                          ELSE "returned", None)
    /\ context' = populate_context_post_run(context, token_file')
    /\ UNCHANGED <<payload, os_environ, initial_environ, agents, resolved, error,
                   logs, providers_path, archive_bytes, last_environment,
                   setups, runs>>

\* ----------------------------------------------------------------- inputs

Str_google_slash_g == <<"g","o","o","g","l","e","/","g">>
Str_google_colon_g == <<"g","o","o","g","l","e",":","g">>
Str_googles_colon_g == <<"g","o","o","g","l","e","s",":","g">>
Str_openai_colon_o == <<"o","p","e","n","a","i",":","o">>
Str_anthropic_slash ==
    <<"a","n","t","h","r","o","p","i","c","/","c","l","a","u","d","e","-",
      "s","o","n","n","e","t","-","4","-","5">>
Str_not_a_number == <<"n","o","t","-","a","-","n","u","m","b","e","r">>
Str_30000 == <<"3","0","0","0","0">>

RECURSIVE EnvsUpTo(_, _)
\* Every environment that sets at most n keys, each key k to one of vals[k].
EnvsUpTo(vals, n) ==
    IF n = 0 THEN {EmptyDict}
    ELSE LET smaller == EnvsUpTo(vals, n - 1)
         IN  smaller \cup
               UNION {{Put(e, k, v) : v \in vals[k]} :
                        e \in smaller, k \in DOMAIN vals}

RECURSIVE StringsUpTo(_, _)
\* Every str of at most n characters of the alphabet.
StringsUpTo(alphabet, n) ==
    IF n = 0 THEN {<<>>}
    ELSE LET shorter == StringsUpTo(alphabet, n - 1)
         IN  shorter \cup {Append(s, c) : s \in shorter, c \in alphabet}

InitWith(environs) ==
    /\ os_environ \in environs
    /\ initial_environ = os_environ
    /\ agents = [a \in Adapters |-> NotConstructed]
    /\ resolved = [a \in Adapters |-> NotEvaluated]
    /\ pc = "idle"
    /\ frame = NoFrame
    /\ error = NoError
    /\ calls = <<>>
    /\ logs = EmptyDict
    /\ token_file = Absent
    /\ context = UnsetContext
    /\ providers_path = "missing"
    /\ archive_bytes = None
    /\ last_environment = None
    /\ setups = 0
    /\ runs = 0
    /\ repo_root = RepoFiles
    /\ built = NotBuilt
    /\ earlier_token_file = token_file

\* Spec: two adapters, constructed and resolved in any interleaving.
AmbientShared ==
    [k \in {"LATTICE_TIMEOUT_MS", "LATTICE_MODEL"} |->
        IF k = "LATTICE_TIMEOUT_MS" THEN {<<"5","0","0","0">>}
        ELSE {Str_openai_colon_o}]

ModelArgsShared == {NotGiven, Str_google_slash_g}

ExperimentArgsShared == {None, <<"e">>}

TimeoutArgs == {None, <<"3","0">>, <<"7">>, <<"-","5">>, <<"0">>, <<"x">>}

Init == InitWith(EnvsUpTo(AmbientShared, 2))

Next ==
    \E a \in Adapters :
        \/ \E m \in ModelArgsShared, e \in ExperimentArgsShared,
              t \in TimeoutArgs : __init__(a, m, e, t)
        \/ GetEnv(a)

Spec == Init /\ [][Next]_vars

\* SpecResolve: one adapter against every ambient environment that sets at
\* most MaxAmbientKeys variables.  ANTHROPIC_API_KEY and LATTICE_RUN_ARGS
\* stand for the variables _env only copies; LATTICE_THINKING_LEVEL is a
\* variable _env does not know.
AmbientResolve ==
    [k \in {"ANTHROPIC_API_KEY", "GOOGLE_GENERATIVE_AI_API_KEY",
            "GOOGLE_API_KEY", "LATTICE_MODEL", "LATTICE_TIMEOUT_MS",
            "LATTICE_PROJECT_PATH", "LATTICE_CONFIG_ROOT",
            "LATTICE_APP_ROOT", "LATTICE_WORKSPACE_ID",
            "LATTICE_PROJECT_CANDIDATES", "LATTICE_EXPERIMENTS",
            "LATTICE_RUN_ARGS", "LATTICE_THINKING_LEVEL"} |->
        CASE k \in {"GOOGLE_GENERATIVE_AI_API_KEY", "GOOGLE_API_KEY"}
                -> {<<>>, <<"k">>}
          [] k = "LATTICE_MODEL"
                -> {<<" ">>, Str_google_slash_g, Str_openai_colon_o}
          [] k = "LATTICE_TIMEOUT_MS"
                -> {<<>>, <<" ">>, Str_30000, <<" ","7"," ">>,
                    Str_not_a_number, <<SUPERSCRIPT_TWO>>}
          [] k = "LATTICE_PROJECT_PATH"
                -> {<<>>, <<" ">>, <<"/","w">>}
          [] k \in {"LATTICE_CONFIG_ROOT", "LATTICE_PROJECT_CANDIDATES"}
                -> {<<>>, <<" ">>, <<" ","/","c","/"," ">>}
          [] k \in {"LATTICE_APP_ROOT", "LATTICE_WORKSPACE_ID"}
                -> {<<>>, <<"w"," ">>}
          [] OTHER -> {<<"v">>}]

ModelArgsResolve ==
    {NotGiven, None, <<" ">>, <<"m">>, Str_anthropic_slash,
     Str_google_colon_g, Str_googles_colon_g}

ExperimentArgsResolve == {None, <<" ">>, <<"e">>}

TimeoutArgsResolve == {None, <<"3","0">>, <<"-","5">>, <<"x">>}

InitResolve == InitWith(EnvsUpTo(AmbientResolve, MaxAmbientKeys))

NextResolve ==
    \/ \E m \in ModelArgsResolve, e \in ExperimentArgsResolve,
          t \in TimeoutArgsResolve : __init__("A", m, e, t)
    \/ GetEnv("A")

SpecResolve == InitResolve /\ [][NextResolve]_vars

\* SpecModel: one adapter, every model id of at most MaxLen characters of
\* ModelAlphabet as the override and as the ambient LATTICE_MODEL.
ModelAlphabet == {"a", "/", ":", " "}

ModelIds ==
    StringsUpTo(ModelAlphabet, MaxLen)
        \cup {Str_google_slash_g, Str_google_colon_g, Str_anthropic_slash}

AmbientModel ==
    [k \in {"LATTICE_MODEL", "GOOGLE_API_KEY"} |->
        IF k = "LATTICE_MODEL" THEN ModelIds ELSE {<<"k">>}]

InitModel == InitWith(EnvsUpTo(AmbientModel, 2))

NextModel ==
    \/ \E m \in ModelIds \cup {NotGiven, None} :
            __init__("A", m, None, None)
    \/ GetEnv("A")

SpecModel == InitModel /\ [][NextModel]_vars

\* SpecRun: adapter A is constructed, set up (again, if the harness retries)
\* and run once against one sandbox, while adapter B may be constructed in
\* the same process at any moment.
Str_providers_file == <<"/","p">>

AmbientRun ==
    LET providers == Put(EmptyDict, _PROVIDERS_FILE_ENV_KEY, Str_providers_file)
    IN  {EmptyDict,
         Put(EmptyDict, _PROVIDERS_FILE_ENV_KEY, <<>>),
         providers,
         Put(providers, "LATTICE_CONFIG_ROOT", <<" ">>),
         Put(providers, "LATTICE_CONFIG_ROOT", <<"/","c","/","/">>),
         Put(providers, "LATTICE_CONFIG_ROOT", <<"/">>),
         Put(EmptyDict, "LATTICE_TIMEOUT_MS", <<"x">>)}

ProvidersPathKinds == {"missing", "directory", "file"}

TimeoutArgsRunA == {None}

TimeoutArgsRunB == {<<"-","5">>, <<"7">>}

\* The return code the sandbox reports for a command it timed out.
TIMEOUT_RETURN_CODE == <<"1","2","4">>

MkdirReturnCodes == {ZERO, <<"1">>}

ExecResult(return_code, stdout, stderr) ==
    [return_code |-> return_code, stdout |-> stdout, stderr |-> stderr]

ExecResults ==
    {ExecResult(ZERO, <<>>, <<>>),
     ExecResult(ZERO, <<"o">>, None),
     ExecResult(<<"1">>, <<"p">>, <<"e">>),
     ExecResult(<<"1">>, <<>>, <<"e">>),
     ExecResult(TIMEOUT_RETURN_CODE, <<"p">>, <<>>),
     ExecResult(TIMEOUT_RETURN_CODE, None, None)}

Instructions == {<<>>, <<"f","i","x">>, <<"i","t","'","s"," ","a">>}

Str_120 == <<"1","2","0">>
Str_45 == <<"4","5">>
Str_0_0032 == <<"0",".","0","0","3","2">>

TokenObjects ==
    LET both == Put(Put(EmptyDict, "input", Str_120), "output", Str_45)
    IN  {EmptyDict,
         both,
         Put(both, "cost_usd", Str_0_0032),
         Put(both, "cost_usd", None),
         Put(EmptyDict, "cost_usd", Str_0_0032)}

\* What the download leaves in the token file; Absent when it raises.
Downloads ==
    {Absent, FileWith("invalid", EmptyDict), FileWith("array", EmptyDict)}
        \cup {FileWith("object", obj) : obj \in TokenObjects}

\* The context the harness hands to run().
ContextsRun ==
    {UnsetContext,
     [n_input_tokens |-> <<"5">>, n_output_tokens |-> <<"6">>,
      cost_usd |-> <<"0",".","5">>],
     [n_input_tokens |-> None, n_output_tokens |-> None,
      cost_usd |-> <<"0",".","5">>]}

InitRun ==
    /\ os_environ \in AmbientRun
    /\ initial_environ = os_environ
    /\ agents = [a \in Adapters |-> NotConstructed]
    /\ resolved = [a \in Adapters |-> NotEvaluated]
    /\ pc = "idle"
    /\ frame = NoFrame
    /\ error = NoError
    /\ calls = <<>>
    /\ logs = EmptyDict
    /\ token_file \in {Absent, FileWith("object", EmptyDict)}
    /\ context = UnsetContext
    /\ providers_path \in ProvidersPathKinds
    /\ archive_bytes = None
    /\ last_environment = None
    /\ setups = 0
    /\ runs = 0
    /\ repo_root = RepoFiles
    /\ built = NotBuilt
    /\ earlier_token_file = token_file

NextRun ==
    \/ \E t \in TimeoutArgsRunA : __init__("A", NotGiven, None, t)
    \/ \E t \in TimeoutArgsRunB : __init__("B", NotGiven, None, t)
    \/ setup
    \/ \E return_code \in MkdirReturnCodes : setup_upload_archive(return_code)
    \/ setup_upload_runner
    \/ setup_super
    \/ _stage_providers_config
    \/ setup_finish
    \/ sandbox_raises
    \/ \E instruction \in Instructions, ctx \in ContextsRun :
          run(instruction, ctx)
    \/ \E result \in ExecResults : run_record(result)
    \/ \E downloaded \in Downloads : run_harvest(downloaded)
    \/ edit_repo

SpecRun == InitRun /\ [][NextRun]_vars

\* SpecArchive: build_app_archive called, as the test calls it, on every
\* repo root with every include list of at most MaxIncludes paths.
IncludeCandidates ==
    {"package.json", "scripts", "scripts/postinstall.sh", "src", "src/b",
     "dist"}

IncludeLists == StringsUpTo(IncludeCandidates, MaxIncludes)

InitArchive ==
    /\ os_environ = EmptyDict
    /\ initial_environ = os_environ
    /\ agents = [a \in Adapters |-> NotConstructed]
    /\ resolved = [a \in Adapters |-> NotEvaluated]
    /\ pc = "idle"
    /\ frame = NoFrame
    /\ error = NoError
    /\ calls = <<>>
    /\ logs = EmptyDict
    /\ token_file = Absent
    /\ context = UnsetContext
    /\ providers_path = "missing"
    /\ archive_bytes = None
    /\ last_environment = None
    /\ setups = 0
    /\ runs = 0
    /\ repo_root \in SUBSET RepoFiles
    /\ built = NotBuilt
    /\ earlier_token_file = token_file

NextArchive ==
    \E include_paths \in IncludeLists : BuildArchive(include_paths)

SpecArchive == InitArchive /\ [][NextArchive]_vars

\* ----------------------------------------------------------------- claims

\* The names of the keys, as they are spelled in a message.
KeyChars(k) ==
    CASE k = "GOOGLE_GENERATIVE_AI_API_KEY"
            -> <<"G","O","O","G","L","E","_","G","E","N","E","R","A","T","I",
                 "V","E","_","A","I","_","A","P","I","_","K","E","Y">>
      [] k = "GOOGLE_API_KEY"
            -> <<"G","O","O","G","L","E","_","A","P","I","_","K","E","Y">>
      [] k = "LATTICE_TIMEOUT_MS"
            -> <<"L","A","T","T","I","C","E","_","T","I","M","E","O","U","T",
                 "_","M","S">>
      [] k = "LATTICE_PROJECT_PATH"
            -> <<"L","A","T","T","I","C","E","_","P","R","O","J","E","C","T",
                 "_","P","A","T","H">>
      [] k = "LATTICE_MODEL"
            -> <<"L","A","T","T","I","C","E","_","M","O","D","E","L">>

\* d.get(k) as a set: empty when the key is absent or its value is empty.
ValueOf(d, k) == IF Truthy(d, k) THEN {d[k]} ELSE {}

Evaluated(a) == resolved[a].state # "none"
ReturnedOk(a) == resolved[a].state = "returned"
RaisedNaming(a, k) ==
    resolved[a].state = "raised" /\ Mentions(resolved[a].error, KeyChars(k))

\* An argument that was passed and is not blank.
Given(arg) == arg # NotGiven /\ arg # None /\ Strip(arg) # <<>>

\* C1: constructing adapters, with any overrides, and resolving them leaves
\* the process environment as it was: every key keeps its value or absence.
C1_AmbientUnchanged == os_environ = initial_environ

\* C2: the timeout an adapter resolves depends only on its own timeout
\* argument and the initial environment: t * 1000 when it was built with
\* timeout t, else the initial LATTICE_TIMEOUT_MS (or none), whatever other
\* adapters were built with.
C2_TimeoutIsOwn ==
    \A a \in Adapters :
        ReturnedOk(a) =>
            ValueOf(resolved[a].env, "LATTICE_TIMEOUT_MS") =
                IF agents[a].arg_timeout # None
                THEN {IntToStr(ParseInt(agents[a].arg_timeout).val * 1000)}
                ELSE ValueOf(initial_environ, "LATTICE_TIMEOUT_MS")

\* The value precedence picks for a key: the override, else the ambient
\* value (one that is not blank), else the default (a set: empty when there
\* is none).
ByPrecedence(override, k, default) ==
    IF override # {} THEN override
    ELSE IF k \in DOMAIN initial_environ /\ Strip(initial_environ[k]) # <<>>
    THEN {initial_environ[k]}
    ELSE default

\* C3: model id, experiment tag and timeout each resolve to the explicit
\* override when one was given, else to the ambient value, else to the
\* default (the model id in its normalized form).
C3_Precedence ==
    ReturnedOk("A") =>
        LET self == agents["A"]
            env == resolved["A"].env
        IN  /\ ValueOf(env, "LATTICE_MODEL") =
                 {NormalizeModel(Strip(m)) :
                    m \in ByPrecedence(
                            IF Given(self.arg_model_name)
                            THEN {self.arg_model_name} ELSE {},
                            "LATTICE_MODEL", {_DEFAULT_MODEL})}
            /\ ValueOf(env, "LATTICE_EXPERIMENTS") =
                 ByPrecedence(
                    IF Given(self.arg_experiments)
                    THEN {Strip(self.arg_experiments)} ELSE {},
                    "LATTICE_EXPERIMENTS", {})
            /\ ValueOf(env, "LATTICE_TIMEOUT_MS") =
                 ByPrecedence(
                    IF self.arg_timeout # None
                    THEN {IntToStr(ParseInt(self.arg_timeout).val * 1000)}
                    ELSE {},
                    "LATTICE_TIMEOUT_MS", {})

\* The model id the adapter was configured with, as it was written: the
\* model_name argument (or its declared default) unless it is blank, else
\* the ambient LATTICE_MODEL, else the default.
ConfiguredModel(a) ==
    LET arg == agents[a].arg_model_name
    IN  IF arg = NotGiven THEN _DEFAULT_MODEL
        ELSE IF arg # None /\ Strip(arg) # <<>> THEN arg
        ELSE IF Truthy(os_environ, "LATTICE_MODEL")
        THEN os_environ["LATTICE_MODEL"]
        ELSE _DEFAULT_MODEL

\* id with its first "/" rewritten to ":" and every other character kept.
IsFirstSlashRewritten(id, out) ==
    \E i \in 1..Len(id) :
        /\ id[i] = "/"
        /\ \A j \in 1..(i - 1) : id[j] # "/"
        /\ out = [id EXCEPT ![i] = ":"]

IsNormalizationOf(id, out) ==
    /\ (Contains(id, "/") /\ ~Contains(id, ":")) =>
            IsFirstSlashRewritten(id, out)
    /\ Contains(id, ":") => out = id

\* C4 as stated: a model id with "/" and no ":" is resolved with exactly its
\* first "/" replaced by ":"; a model id that contains ":" is resolved
\* unchanged.
C4_NormalizedAsWritten ==
    ReturnedOk("A") =>
        IsNormalizationOf(ConfiguredModel("A"),
                          resolved["A"].env["LATTICE_MODEL"])

\* C4 as amended: the same of the model id with its surrounding whitespace
\* trimmed.
C4_NormalizedAfterTrim ==
    ReturnedOk("A") =>
        IsNormalizationOf(Strip(ConfiguredModel("A")),
                          resolved["A"].env["LATTICE_MODEL"])

\* A padded id with two "/" and no ":" was resolved.
C4_Witness ==
    /\ ReturnedOk("A")
    /\ ConfiguredModel("A") = <<" ", "/", "/">>

\* C5: every resolved configuration has its model id in provider:model
\* form: LATTICE_MODEL contains a ":".
C5_ModelHasColon ==
    \A a \in Adapters :
        ReturnedOk(a) => Contains(resolved[a].env["LATTICE_MODEL"], ":")

RequiredKeys ==
    {"LATTICE_MODEL", "LATTICE_CONFIG_ROOT", "LATTICE_APP_ROOT",
     "LATTICE_WORKSPACE_ID", "LATTICE_PROJECT_CANDIDATES"}

\* C6: every resolved configuration contains the five required keys,
\* whichever of them the ambient environment sets, leaves unset or sets to
\* the empty string.
C6_RequiredKeysPresent ==
    \A a \in Adapters :
        ReturnedOk(a) => RequiredKeys \subseteq DOMAIN resolved[a].env

\* Resolved with one required key set to the empty string, one set to a
\* value and the other three unset.
C6_Witness ==
    /\ ReturnedOk("A")
    /\ \E k1, k2 \in RequiredKeys :
          /\ DOMAIN initial_environ = {k1, k2}
          /\ initial_environ[k1] = <<>>
          /\ initial_environ[k2] # <<>>

\* C7: built with a model override and with no recognized variable set, the
\* resolved configuration has LATTICE_THINKING_LEVEL "high", LATTICE_MODE
\* "exec" and the default LATTICE_PROJECT_CANDIDATES.
C7_TestDefaults ==
    ( /\ ReturnedOk("A")
      /\ Given(agents["A"].arg_model_name)
      /\ DOMAIN initial_environ \cap ForwardedKeys = {} )
    => LET env == resolved["A"].env
       IN  /\ ValueOf(env, "LATTICE_THINKING_LEVEL") = {<<"h","i","g","h">>}
           /\ ValueOf(env, "LATTICE_MODE") = {<<"e","x","e","c">>}
           /\ ValueOf(env, "LATTICE_PROJECT_CANDIDATES") =
                {_DEFAULT_PROJECT_CANDIDATES}

\* The part of a model id before its first ":" (a set: empty without ":").
ProviderSegment(id) ==
    {SubSeq(id, 1, i - 1) :
        i \in {j \in 1..Len(id) :
                 id[j] = ":" /\ \A h \in 1..(j - 1) : id[h] # ":"}}

\* C8: resolution raises an error naming both credential keys exactly when
\* the resolved model id's provider segment is google and neither
\* GOOGLE_GENERATIVE_AI_API_KEY nor GOOGLE_API_KEY is in the mapping.
C8_GoogleCredentials ==
    \A a \in Adapters :
        Evaluated(a) =>
            ( ( /\ RaisedNaming(a, "GOOGLE_GENERATIVE_AI_API_KEY")
                /\ RaisedNaming(a, "GOOGLE_API_KEY") )
              <=>
              ( /\ ProviderSegment(resolved[a].model_value)
                     = {<<"g","o","o","g","l","e">>}
                /\ "GOOGLE_GENERATIVE_AI_API_KEY" \notin DOMAIN resolved[a].env
                /\ "GOOGLE_API_KEY" \notin DOMAIN resolved[a].env ) )

\* The ambient LATTICE_MODEL google/g raised the error, with GOOGLE_API_KEY
\* set to the empty string and so absent from the mapping.
C8_Witness ==
    /\ RaisedNaming("A", "GOOGLE_GENERATIVE_AI_API_KEY")
    /\ RaisedNaming("A", "GOOGLE_API_KEY")
    /\ resolved["A"].model_value = Str_google_colon_g
    /\ os_environ =
          [k \in {"LATTICE_MODEL", "GOOGLE_API_KEY"} |->
              IF k = "LATTICE_MODEL" THEN Str_google_slash_g ELSE <<>>]

\* s parses as an integer that is not negative.
IsNonNegativeInteger(s) == ParseInt(s).ok /\ ParseInt(s).val >= 0

\* C9: a LATTICE_TIMEOUT_MS that is present and no non-negative integer
\* makes resolution raise; resolution raises naming LATTICE_TIMEOUT_MS only
\* then; so a resolved configuration's LATTICE_TIMEOUT_MS, when present,
\* parses as a non-negative integer.  (An earlier validation that fails is
\* let to raise in its place.)
C9_TimeoutValidated ==
    \A a \in Adapters :
        Evaluated(a) =>
            LET t == ValueOf(resolved[a].env, "LATTICE_TIMEOUT_MS")
                bad == \E s \in t : ~IsNonNegativeInteger(s)
            IN  /\ bad => resolved[a].state = "raised"
                /\ RaisedNaming(a, "LATTICE_TIMEOUT_MS") => bad
                /\ ReturnedOk(a) => \A s \in t : IsNonNegativeInteger(s)

\* C10: a LATTICE_PROJECT_PATH that the ambient environment sets and that
\* is empty after trimming (the empty string too) makes resolution raise;
\* resolution raises naming LATTICE_PROJECT_PATH only then.  (An earlier
\* validation that fails is let to raise in its place.)
C10_ProjectPathValidated ==
    \A a \in Adapters :
        Evaluated(a) =>
            LET blank == /\ "LATTICE_PROJECT_PATH" \in DOMAIN os_environ
                         /\ Strip(os_environ["LATTICE_PROJECT_PATH"]) = <<>>
            IN  /\ blank => resolved[a].state = "raised"
                /\ RaisedNaming(a, "LATTICE_PROJECT_PATH") => blank


\* C11: a setup() or run() whose evaluation of the environment mapping
\* raised has issued no sandbox operation: what the sandbox has seen since
\* the last setup() began is nothing, or, under run(), only what that
\* setup() issued.
C11_FailFast ==
    error.type = "ValueError" =>
        /\ resolved["A"].state = "raised"
        /\ runs = 0 => calls = <<>>
        /\ \A i \in 1..Len(calls) : calls[i].call = "setup"

\* C11: run() raised the configuration error after a setup() that had
\* issued its operations.
C11_Witness ==
    /\ error.type = "ValueError"
    /\ runs = 1
    /\ calls # <<>>

\* The operations of the last setup(), in the order they were issued.
SetupCalls == SelectSeq(calls, LAMBDA c : c.call = "setup")

\* The steps of setup(): the staging directory, the archive, the runner
\* script, the install step, the providers file.
SetupSteps ==
    <<[op |-> "exec", what |-> MKDIR_COMMAND],
      [op |-> "upload_file", what |-> INSTALLED_AGENT_DIR \o _ARCHIVE_NAME],
      [op |-> "upload_file", what |-> INSTALLED_AGENT_DIR \o _RUNNER_NAME],
      [op |-> "super().setup", what |-> <<>>],
      [op |-> "upload_file", what |-> PROVIDERS_BASENAME]>>

EndsWith(s, suffix) ==
    /\ Len(s) >= Len(suffix)
    /\ SubSeq(s, Len(s) - Len(suffix) + 1, Len(s)) = suffix

\* C12: what a setup() has issued is, at every moment, the first steps of
\* the fixed order, none skipped or repeated; every step but the last has
\* returned before its successor was issued, so the providers upload is
\* issued only after the install step returned.
C12_SetupOrder ==
    /\ Len(SetupCalls) <= Len(SetupSteps)
    /\ \A k \in 1..Len(SetupCalls) :
          /\ SetupCalls[k].op = SetupSteps[k].op
          /\ EndsWith(SetupCalls[k].what, SetupSteps[k].what)
          /\ k < Len(SetupSteps) => SetupCalls[k].what = SetupSteps[k].what
          /\ k < Len(SetupCalls) => SetupCalls[k].result = "returned"

\* C12: a setup() went through all five steps and returned.
C12_Witness ==
    /\ Len(SetupCalls) = Len(SetupSteps)
    /\ SetupCalls[Len(SetupCalls)].result = "returned"
    /\ pc = "idle"
    /\ error = NoError

\* A sandbox operation that raised, or returned a non-zero return code.
Failed(c) ==
    \/ c.result = "raised"
    \/ c.result = "returned" /\ c.return_code \notin {None, ZERO}

\* C13: when one of the first four steps of setup() has failed, by raising
\* or by a non-zero return code, no later step is issued and setup() has
\* raised an error.
C13_SetupFailureIsFatal ==
    \A k \in 1..Len(SetupCalls) :
        k < Len(SetupSteps) /\ Failed(SetupCalls[k]) =>
            /\ k = Len(SetupCalls)
            /\ pc = "idle"
            /\ error # NoError

\* The install step of the last setup() returned, so that the providers
\* step has acted.
ProvidersStepActed ==
    /\ Len(SetupCalls) >= Len(SetupSteps) - 1
    /\ SetupCalls[Len(SetupSteps) - 1].result = "returned"

ProvidersFileConfigured == Truthy(os_environ, _PROVIDERS_FILE_ENV_KEY)

\* C14: the providers step issues an upload exactly when a path is
\* configured and names a file; unconfigured, setup() returns without
\* error; configured and no file, setup() raises; the target of the upload
\* is the config root of the resolved mapping, without its trailing "/",
\* followed by /providers.jsonc.
C14_ProvidersUpload ==
    ProvidersStepActed =>
        /\ Len(SetupCalls) = Len(SetupSteps)
              <=> ProvidersFileConfigured /\ providers_path = "file"
        /\ ~ProvidersFileConfigured /\ runs = 0 => error = NoError
        /\ ProvidersFileConfigured /\ providers_path # "file" /\ runs = 0
              => error.type = "RuntimeError"
        /\ Len(SetupCalls) = Len(SetupSteps) =>
              SetupCalls[Len(SetupSteps)].what =
                  RStripSlash(resolved["A"].env["LATTICE_CONFIG_ROOT"])
                      \o PROVIDERS_BASENAME

\* The file under logs_dir holds the text, or is not there when the text
\* is None or empty.
HoldsIfNonEmpty(files, name, text) ==
    IF text = None \/ text = <<>> THEN name \notin DOMAIN files
    ELSE name \in DOMAIN files /\ files[name] = text

\* C15: whatever result the exec of the command returns (exit 0, non-zero,
\* the timeout return code), run() does not raise and goes on to the
\* download, and command-0 holds return-code.txt with the return code,
\* stdout.txt exactly when stdout is not empty and stderr.txt exactly when
\* stderr is not empty, next to the command.txt written before the exec.
C15_OutcomeRecorded ==
    [][\A result \in ExecResults :
          run_record(result) =>
              /\ error' = NoError
              /\ pc' = "run:download"
              /\ logs'["command-0/return-code.txt"] = result.return_code
              /\ HoldsIfNonEmpty(logs', "command-0/stdout.txt", result.stdout)
              /\ HoldsIfNonEmpty(logs', "command-0/stderr.txt", result.stderr)
              /\ logs'["command-0/command.txt"] = frame.command]_vars

\* C15: a command that timed out with partial output has been recorded.
C15_Witness ==
    /\ pc = "run:download"
    /\ logs["command-0/return-code.txt"] = TIMEOUT_RETURN_CODE
    /\ "command-0/stdout.txt" \in DOMAIN logs
    /\ "command-0/stderr.txt" \notin DOMAIN logs

\* The operations of run(), in the order they were issued.
RunCalls == SelectSeq(calls, LAMBDA c : c.call = "run")

\* run() returned.
RunReturned == runs = 1 /\ pc = "idle" /\ error = NoError

\* C16: run() issues the download of the token file once, and only after
\* the exec of the command returned; it issues it whatever result the exec
\* returned; a run() that returned has made the one attempt; and the
\* context changes only in the step that ends the download's await.
C16_HarvestOnce ==
    /\ [](/\ Len(RunCalls) <= 2
          /\ Len(RunCalls) >= 1 => RunCalls[1].op = "exec"
          /\ Len(RunCalls) = 2 =>
                /\ RunCalls[1].result = "returned"
                /\ RunCalls[2].op = "download_file"
                /\ RunCalls[2].what = _TOKEN_FILE_PATH
          /\ RunReturned =>
                Len(RunCalls) = 2 /\ RunCalls[2].result # "pending")
    /\ [][/\ \A result \in ExecResults :
                run_record(result) =>
                    Len(RunCalls') = 2 /\ RunCalls'[2].result = "pending"
          /\ context' # context /\ runs' = runs =>
                /\ pc = "run:download"
                /\ RunCalls'[2].result # "pending"
                /\ context' = populate_context_post_run(context, token_file')
         ]_vars

\* C16: a run() whose command exited 1 has harvested and returned.
C16_Witness ==
    /\ RunReturned
    /\ RunCalls[1].return_code = <<"1">>
    /\ RunCalls[2].result = "returned"
    /\ context.n_input_tokens = Str_120

\* The field of the context is written only if it is not already set.
WrittenOnceIfUnset(before, after) == before # None => after = before

\* C17: the harvest writes a field of the context (input tokens, output
\* tokens, cost) only if the field is not already set: a field that holds
\* a value when run() gets the context keeps it.
C17_WriteOnceIfUnset ==
    [][runs' = runs =>
          /\ WrittenOnceIfUnset(context.n_input_tokens,
                                context'.n_input_tokens)
          /\ WrittenOnceIfUnset(context.n_output_tokens,
                                context'.n_output_tokens)
          /\ WrittenOnceIfUnset(context.cost_usd, context'.cost_usd)]_vars

\* C18: when the download of the token file raises, run() returns without
\* raising and every field of the context is as it was before the harvest.
C18_DownloadFailureAbsorbed ==
    [][run_harvest(Absent) =>
          /\ context' = context
          /\ pc' = "idle"
          /\ error' = NoError]_vars

\* C18: a run() whose download raised has returned, with a context that
\* had its fields set.
C18_Witness ==
    /\ RunReturned
    /\ RunCalls[2].result = "raised"
    /\ context.n_input_tokens = <<"5">>
    /\ token_file = Absent

\* The token file is there and is not JSON, or is JSON for something that
\* is no object.
Malformed(file) == file # Absent /\ file.json # "object"

\* C19: when the downloaded token file is malformed, run() returns without
\* raising and all three fields of the context are as they were: none of
\* them is written.
C19_MalformedAbsorbed ==
    [][\A downloaded \in Downloads :
          Malformed(downloaded) /\ run_harvest(downloaded) =>
              /\ context' = context
              /\ pc' = "idle"
              /\ error' = NoError]_vars

\* C19: a run() that downloaded JSON for an array has returned.
C19_Witness ==
    /\ RunReturned
    /\ token_file = FileWith("array", EmptyDict)
    /\ context = UnsetContext

\* C20: from a token file that is a JSON object, a context whose fields
\* are unset ends with the input tokens at the object's input, or 0 when
\* it has none, the output tokens at its output, or 0, and the cost at its
\* cost_usd, or unset when it has none.
C20_Populated ==
    [][\A downloaded \in Downloads :
          /\ downloaded.json = "object"
          /\ context = UnsetContext
          /\ run_harvest(downloaded)
          =>
          LET obj == downloaded.obj
          IN  /\ context'.n_input_tokens =
                    IF "input" \in DOMAIN obj THEN obj["input"] ELSE ZERO
              /\ context'.n_output_tokens =
                    IF "output" \in DOMAIN obj THEN obj["output"] ELSE ZERO
              /\ context'.cost_usd =
                    IF "cost_usd" \in DOMAIN obj THEN obj["cost_usd"]
                    ELSE None]_vars

\* C20: a context that began unset was populated from {"input": 120,
\* "output": 45}: its cost is still unset.
C20_Witness ==
    /\ RunReturned
    /\ token_file.json = "object"
    /\ DOMAIN token_file.obj = {"input", "output"}
    /\ context = [n_input_tokens |-> Str_120, n_output_tokens |-> Str_45,
                  cost_usd |-> None]

RECURSIVE ShellScan(_, _, _, _, _)
\* The words a POSIX shell makes of the text s, read from inside the quote
\* (none is ""), with the word begun so far and the words before it.
ShellScan(s, quote, word, inword, words) ==
    IF s = <<>> THEN (IF inword THEN Append(words, word) ELSE words)
    ELSE IF quote # ""
    THEN IF Head(s) = quote
         THEN ShellScan(Tail(s), "", word, TRUE, words)
         ELSE ShellScan(Tail(s), quote, Append(word, Head(s)), TRUE, words)
    ELSE IF Head(s) \in {"'", "\""}
    THEN ShellScan(Tail(s), Head(s), word, TRUE, words)
    ELSE IF Head(s) = " "
    THEN ShellScan(Tail(s), "", <<>>, FALSE,
                   IF inword THEN Append(words, word) ELSE words)
    ELSE ShellScan(Tail(s), "", Append(word, Head(s)), TRUE, words)

ShellWords(s) == ShellScan(s, "", <<>>, FALSE, <<>>)

\* C21: run() issues one exec and no second one; the shell reads its
\* command as three words, bash, the runner script under /installed-agent
\* and the instruction, whole and unchanged; and the env it is given is the
\* mapping self._env returned when the command was made.
C21_OneQuotedCommand ==
    /\ [](\A i \in 1..Len(RunCalls) : RunCalls[i].op = "exec" => i = 1)
    /\ [][\A instruction \in Instructions, ctx \in ContextsRun :
             run(instruction, ctx) /\ error' = NoError =>
                 /\ Len(RunCalls') = 1
                 /\ RunCalls'[1].op = "exec"
                 /\ RunCalls'[1].what = frame'.command
                 /\ ShellWords(frame'.command) =
                       <<<<"b","a","s","h">>,
                         INSTALLED_AGENT_DIR \o _RUNNER_NAME,
                         instruction>>
                 /\ resolved'["A"].state = "returned"
                 /\ frame'.env = resolved'["A"].env
                 /\ frame'.env = _env(agents["A"], os_environ).env]_vars

\* C21: the command of an instruction with a quote and a space in it has
\* been executed.
C21_Witness ==
    /\ RunReturned
    /\ ShellWords(logs["command-0/command.txt"])[3] = <<"i","t","'","s"," ","a">>

\* The path is the directory or lies in it, at any depth.
Within(path, dir) ==
    dir \in {path, Parent(path), Parent(Parent(path))} /\ dir # ""

\* What is on disk under the root: its files and their directories.
OnDisk(root) ==
    root \cup {d \in {Parent(f) : f \in root}
                    \cup {Parent(Parent(f)) : f \in root} : d # ""}

\* C22: the names of the built archive are exactly what is on disk at an
\* include path or within one: every such file and directory is there, an
\* include path that is not on disk adds nothing and is no error, and
\* nothing else is in the archive.
C22_ArchiveEntries ==
    built # NotBuilt =>
        ArchiveNames(built.archive_bytes) =
            {path \in OnDisk(repo_root) :
                \E i \in DOMAIN built.include_paths :
                    Within(path, built.include_paths[i])}

\* C22: the include list ["scripts/postinstall.sh"], over a root that holds
\* that file among others, has given exactly that one entry.
C22_Witness ==
    /\ built.include_paths = <<"scripts/postinstall.sh">>
    /\ repo_root = RepoFiles
    /\ ArchiveNames(built.archive_bytes) = {"scripts/postinstall.sh"}

\* C23: the mapping under which run() executes the command is the one
\* setup() resolved, whatever became of os.environ in between.
C23_ResolvedOnce ==
    [][\A instruction \in Instructions, ctx \in ContextsRun :
          run(instruction, ctx) /\ error' = NoError =>
              frame'.env = resolved["A"].env]_vars

\* C24: once self._archive_bytes is set it is never written again, so the
\* archive is built at most once for the adapter; and what a setup() writes
\* under logs_dir and uploads is that field, the same bytes as the setup()
\* before it, also when the repository has changed since.
C24_ArchiveBuiltOnce ==
    [][/\ archive_bytes # None => archive_bytes' = archive_bytes
       /\ \A return_code \in MkdirReturnCodes :
             setup_upload_archive(return_code) =>
                 /\ archive_bytes' # None
                 /\ logs'["lattice-app.tar.gz"] = archive_bytes'
                 /\ "lattice-app.tar.gz" \in DOMAIN logs =>
                       logs'["lattice-app.tar.gz"] = logs["lattice-app.tar.gz"]
      ]_vars

\* C24: a second setup() uploads the archive the first one built, after a
\* file that is in it was removed from the repository.
C24_Witness ==
    /\ setups = 2
    /\ pc = "setup:archive"
    /\ repo_root # RepoFiles
    /\ "src/a.ts" \in ArchiveNames(archive_bytes)
    /\ logs["lattice-app.tar.gz"] = archive_bytes

\* The exec operations run() has issued.
RunExecs == SelectSeq(RunCalls, LAMBDA c : c.op = "exec")

\* C25: run() invokes its commands one after the other.  While the exec of
\* a command is issued, command-0/command.txt holds its text; run() issues
\* no second exec, and nothing else while the exec is pending; and the step
\* that goes on after the exec has written the return code, stdout and
\* stderr of the invocation before it issues run()'s next operation.
C25_InvocationOrder ==
    /\ [](/\ Len(RunExecs) <= 1
          /\ \A i \in DOMAIN RunCalls :
                /\ RunCalls[i].op = "exec" =>
                      /\ i = 1
                      /\ "command-0/command.txt" \in DOMAIN logs
                      /\ logs["command-0/command.txt"] = RunCalls[i].what
                /\ RunCalls[i].result = "pending" => i = Len(RunCalls)
                /\ i > 1 =>
                      /\ RunCalls[1].result = "returned"
                      /\ "command-0/return-code.txt" \in DOMAIN logs
                      /\ logs["command-0/return-code.txt"] =
                             RunCalls[1].return_code
          /\ pc = "run:exec" => "command-0/return-code.txt" \notin DOMAIN logs)
    /\ [][Len(RunCalls') > Len(RunCalls) /\ Len(RunCalls) > 0 =>
             \E result \in ExecResults :
                /\ RunCalls[1].result = "pending"
                /\ RunCalls'[1].return_code = result.return_code
                /\ HoldsIfNonEmpty(logs', "command-0/stdout.txt",
                                   result.stdout)
                /\ HoldsIfNonEmpty(logs', "command-0/stderr.txt",
                                   result.stderr)]_vars

\* C25: the exec of the command is pending, with the command text under
\* command-0 and no result there yet.
C25_Witness ==
    /\ pc = "run:exec"
    /\ Len(RunExecs) = 1
    /\ RunExecs[1].result = "pending"
    /\ logs["command-0/command.txt"] = RunExecs[1].what
    /\ DOMAIN logs \cap {"command-0/return-code.txt", "command-0/stdout.txt",
                        "command-0/stderr.txt"} = {}

\* C26: of the sandbox operations setup() and run() have issued, only the
\* one issued last can be outstanding, and none is while neither method is
\* at an await: an operation is issued only once the one before it has
\* returned or raised.
C26_OneOutstanding ==
    /\ \A i \in DOMAIN calls :
          calls[i].result = "pending" => i = Len(calls) /\ pc # "idle"
    /\ pc # "idle" => calls # <<>> /\ calls[Len(calls)].result = "pending"

\* C26: run() awaits the download of the token file, and every operation
\* setup() and run() issued before it has returned.
C26_Witness ==
    /\ pc = "run:download"
    /\ Len(SetupCalls) >= 4
    /\ Len(RunCalls) = 2
    /\ calls[Len(calls)].result = "pending"
    /\ \A i \in 1..(Len(calls) - 1) : calls[i].result = "returned"

\* C27: while the download is awaited the local token file is not there,
\* whatever an earlier run left; a download that raises leaves the context
\* as it was; and one that returns leaves the context populated from the
\* file it wrote and from nothing else.
C27_NoStaleTelemetry ==
    /\ [](pc = "run:download" => token_file = Absent)
    /\ [][\A downloaded \in Downloads :
             run_harvest(downloaded) =>
                 /\ downloaded = Absent =>
                       context' = context /\ token_file' = Absent
                 /\ downloaded # Absent =>
                       /\ token_file' = downloaded
                       /\ context' =
                              populate_context_post_run(context, downloaded)
         ]_vars

\* C27: an earlier run had left a token file, the download of this run
\* raised, and run() returned with the context still unset and no token
\* file under logs_dir.
C27_Witness ==
    /\ RunReturned
    /\ earlier_token_file # Absent
    /\ calls[Len(calls)].op = "download_file"
    /\ calls[Len(calls)].result = "raised"
    /\ token_file = Absent
    /\ context = UnsetContext

====
